---------------------------- MODULE Spec2Model ----------------------------
(***************************************************************************)
(* Variational EM for vLGP: the driver vem() of src/vlgp/core.py with its  *)
(* E-step, M-step and constraint steps, and the damped-Newton routine      *)
(* variational() of src/vb.py.                                             *)
(*                                                                         *)
(* Floating-point numbers are modelled as fixed-point numbers: the integer *)
(* X stands for the real X / Scale.  Values beyond MaxFin overflow to the  *)
(* infinities PInf / NInf, and NaN is a value of its own, with the IEEE    *)
(* rules for arithmetic and comparison on them.                            *)
(***************************************************************************)
EXTENDS Integers, Sequences, FiniteSets, TLC

\* ------------------------------------------------------------------------
\* Fixed-point model of float64
\* ------------------------------------------------------------------------

\* Units per 1.0: the resolution of the number model.
Scale == 32

\* Largest finite magnitude (in units); beyond it a result is infinite.
MaxFin == 30000

PInf == MaxFin + 1
NInf == 0 - (MaxFin + 1)
NaN == MaxFin + 2

One == Scale

IsNaN(x) == x = NaN
IsInf(x) == x = PInf \/ x = NInf
IsFin(x) == ~IsNaN(x) /\ ~IsInf(x)

Abs(x) == IF x < 0 THEN 0 - x ELSE x
Sgn(x) == IF x < 0 THEN 0 - 1 ELSE IF x > 0 THEN 1 ELSE 0

\* Quotient of naturals rounded to nearest, ties to even (the IEEE rounding).
RDivNat(a, b) ==
    LET q == a \div b
        r == a % b
    IN IF 2 * r > b \/ (2 * r = b /\ q % 2 = 1) THEN q + 1 ELSE q

\* Integer quotient rounded to nearest, b > 0.
RDiv(a, b) == IF a >= 0 THEN RDivNat(a, b) ELSE 0 - RDivNat(0 - a, b)

\* An integer result brought back into the number model (overflow -> inf).
Norm(z) == IF z > MaxFin THEN PInf ELSE IF z < 0 - MaxFin THEN NInf ELSE z

FNeg(x) == IF IsNaN(x) THEN NaN ELSE 0 - x

FAdd(x, y) ==
    IF IsNaN(x) \/ IsNaN(y) THEN NaN
    ELSE IF IsInf(x) /\ IsInf(y) THEN (IF x = y THEN x ELSE NaN)
    ELSE IF IsInf(x) THEN x
    ELSE IF IsInf(y) THEN y
    ELSE Norm(x + y)

FSub(x, y) == FAdd(x, FNeg(y))

FMul(x, y) ==
    IF IsNaN(x) \/ IsNaN(y) THEN NaN
    ELSE IF IsInf(x) \/ IsInf(y)
         THEN (IF x = 0 \/ y = 0 THEN NaN
               ELSE IF Sgn(x) * Sgn(y) > 0 THEN PInf ELSE NInf)
    ELSE Norm(RDiv(x * y, Scale))

FDiv(x, y) ==
    IF IsNaN(x) \/ IsNaN(y) THEN NaN
    ELSE IF IsInf(x) /\ IsInf(y) THEN NaN
    ELSE IF IsInf(x) THEN (IF Sgn(x) * (IF y < 0 THEN 0 - 1 ELSE 1) > 0 THEN PInf ELSE NInf)
    ELSE IF IsInf(y) THEN 0
    ELSE IF y = 0 THEN (IF x = 0 THEN NaN ELSE IF x > 0 THEN PInf ELSE NInf)
    ELSE Norm(Sgn(y) * RDiv(x * Scale, Abs(y)))

\* x < y on floats: false as soon as a NaN is involved.
FLt(x, y) == ~IsNaN(x) /\ ~IsNaN(y) /\ x < y
FGt(x, y) == FLt(y, x)
FGe(x, y) == ~IsNaN(x) /\ ~IsNaN(y) /\ x >= y

FAbs(x) == IF IsNaN(x) THEN NaN ELSE Abs(x)

\* Integer square root (floor).
RECURSIVE ISqrtAbove(_, _)
\* the first of h, 2h, 4h, ... whose square exceeds n
ISqrtAbove(n, h) == IF h * h > n THEN h ELSE ISqrtAbove(n, 2 * h)
RECURSIVE ISqrtIn(_, _, _)
\* the r with r * r <= n < (r + 1) * (r + 1), by bisection of lo..hi, where
\* lo * lo <= n < hi * hi
ISqrtIn(n, lo, hi) ==
    IF hi - lo <= 1 THEN lo
    ELSE LET mid == (lo + hi) \div 2
         IN IF mid * mid <= n THEN ISqrtIn(n, mid, hi) ELSE ISqrtIn(n, lo, mid)
ISqrt(n) == ISqrtIn(n, 0, ISqrtAbove(n, 1))

\* sqrt of a float: sqrt(X / Scale) * Scale = sqrt(X * Scale).
FSqrt(x) ==
    IF IsNaN(x) THEN NaN
    ELSE IF x = PInf THEN PInf
    ELSE IF x < 0 THEN NaN
    ELSE ISqrt(x * Scale)

\* Number of terms of the exponential series.
ExpTerms == 40

RECURSIVE ExpSeries(_, _, _, _)
ExpSeries(x, k, term, acc) ==
    IF k > ExpTerms \/ term = 0 THEN acc
    ELSE LET t == RDiv(term * x, k * Scale)
         IN ExpSeries(x, k + 1, t, acc + t)

\* exp of a non-negative finite float, by its power series.
ExpPos(x) == IF x > 9 * Scale THEN PInf ELSE Norm(ExpSeries(x, 1, 16 * Scale, 16 * Scale) \div 16)

\* exp of a finite float
ExpFinite(x) ==
    IF x >= 0 THEN ExpPos(x)
    ELSE LET e == ExpPos(0 - x)
         IN IF e = PInf THEN 0 ELSE RDiv(Scale * Scale, e)

\* The exponentials of the floats between -9 and 9, beyond which exp is 0 or
\* overflows.
ExpTable == [x \in (0 - 9 * Scale - 1)..(9 * Scale + 1) |-> ExpFinite(x)]

\* np.exp
FExp(x) ==
    IF IsNaN(x) THEN NaN
    ELSE IF x > 9 * Scale THEN PInf
    ELSE IF x < 0 - 9 * Scale THEN 0
    ELSE ExpTable[x]

\* np.log of a float (natural logarithm): the inverse of FExp.
FLog(x) ==
    IF IsNaN(x) THEN NaN
    ELSE IF x < 0 THEN NaN
    ELSE IF x = 0 THEN NInf
    ELSE IF x = PInf THEN PInf
    ELSE CHOOSE y \in (0 - 9 * Scale)..(9 * Scale) : ExpTable[y] <= x /\ ExpTable[y + 1] > x

\* Let(v, F) is F(v) with v evaluated once (the value of a local variable).
Let(v, F(_)) == CHOOSE y \in {F(x) : x \in {v}} : TRUE

\* ------------------------------------------------------------------------
\* Vectors and matrices (sequences, and sequences of rows)
\* ------------------------------------------------------------------------

RECURSIVE FSumFrom(_, _, _)
FSumFrom(s, i, acc) == IF i > Len(s) THEN acc ELSE FSumFrom(s, i + 1, FAdd(acc, s[i]))
FSum(s) == FSumFrom(s, 1, 0)

Dot(u, v) == FSum([i \in 1..Len(u) |-> FMul(u[i], v[i])])
VAdd(u, v) == [i \in 1..Len(u) |-> FAdd(u[i], v[i])]
VSub(u, v) == [i \in 1..Len(u) |-> FSub(u[i], v[i])]
VScale(c, u) == [i \in 1..Len(u) |-> FMul(c, u[i])]
VFinite(u) == \A i \in 1..Len(u) : IsFin(u[i])

Col(m, j) == [i \in 1..Len(m) |-> m[i][j]]
NCols(m) == IF Len(m) = 0 THEN 0 ELSE Len(m[1])
Transpose(m) == [j \in 1..NCols(m) |-> Col(m, j)]
MatVec(m, u) == [i \in 1..Len(m) |-> Dot(m[i], u)]
MatMul(m, k) == [i \in 1..Len(m) |-> [j \in 1..NCols(k) |-> Dot(m[i], Col(k, j))]]
MAdd(m, k) == [i \in 1..Len(m) |-> VAdd(m[i], k[i])]
MSub(m, k) == [i \in 1..Len(m) |-> VSub(m[i], k[i])]
MFinite(m) == \A i \in 1..Len(m) : VFinite(m[i])
\* m with column j replaced by the vector u
SetCol(m, j, u) == [i \in 1..Len(m) |-> [m[i] EXCEPT ![j] = u[i]]]
Identity(n) == [i \in 1..n |-> [j \in 1..n |-> IF i = j THEN One ELSE 0]]
\* one matrix above the other (np.concatenate(..., axis=0))
Concat(ms) == LET RECURSIVE Cat(_)
                  Cat(i) == IF i > Len(ms) THEN << >> ELSE ms[i] \o Cat(i + 1)
              IN Cat(1)

\* scipy.linalg.norm / np.linalg.norm of a vector (2-norm) and of a matrix
\* (Frobenius norm)
norm(u) == FSqrt(FSum([i \in 1..Len(u) |-> FMul(u[i], u[i])]))
normF(m) == norm(Concat(m))
\* np.linalg.norm(u, ord=np.inf)
normInf(u) == IF \E i \in 1..Len(u) : IsNaN(u[i]) THEN NaN
              ELSE IF Len(u) = 0 THEN 0
              ELSE CHOOSE x \in {Abs(u[i]) : i \in 1..Len(u)} :
                       \A i \in 1..Len(u) : Abs(u[i]) <= x

\* Determinant of a 2 x 2 matrix.
Det2(A) == FSub(FMul(A[1][1], A[2][2]), FMul(A[1][2], A[2][1]))

\* scipy.linalg.solve(A, rhs, assume_a='pos'): Cholesky solve of a symmetric
\* positive definite system, reading the lower triangle of A.  It raises when
\* an input is not finite (check_finite) or A is not positive definite.
\* Result: [ok |-> solved without raising, x |-> the solution].
solve_pos_2(L, rhs) ==
    Let(Det2(L), LAMBDA d :
        IF L[1][1] <= 0 \/ d <= 0 THEN [ok |-> FALSE, x |-> rhs]
        ELSE [ok |-> TRUE,
              x |-> <<FDiv(FSub(FMul(rhs[1], L[2][2]), FMul(L[1][2], rhs[2])), d),
                      FDiv(FSub(FMul(L[1][1], rhs[2]), FMul(L[2][1], rhs[1])), d)>>])

solve_pos_values(A, rhs) ==
    IF ~MFinite(A) \/ ~VFinite(rhs) THEN [ok |-> FALSE, x |-> rhs]
    ELSE IF Len(A) = 1
    THEN IF A[1][1] <= 0 THEN [ok |-> FALSE, x |-> rhs]
         ELSE [ok |-> TRUE, x |-> <<FDiv(rhs[1], A[1][1])>>]
    ELSE solve_pos_2(<<<<A[1][1], A[2][1]>>, <<A[2][1], A[2][2]>>>>, rhs)

solve_pos(A, rhs) ==
    Let(A, LAMBDA Av : Let(rhs, LAMBDA bv : solve_pos_values(Av, bv)))

\* Determinant of a 3 x 3 matrix, by its first row.
Det3(A) ==
    FAdd(FSub(FMul(A[1][1], FSub(FMul(A[2][2], A[3][3]), FMul(A[2][3], A[3][2]))),
              FMul(A[1][2], FSub(FMul(A[2][1], A[3][3]), FMul(A[2][3], A[3][1])))),
         FMul(A[1][3], FSub(FMul(A[2][1], A[3][2]), FMul(A[2][2], A[3][1]))))

Det(A) == IF Len(A) = 1 THEN A[1][1] ELSE IF Len(A) = 2 THEN Det2(A) ELSE Det3(A)

\* Cramer's rule for a system of order 1 to 3 with determinant d # 0.
cramer(A, rhs, d) ==
    [i \in 1..Len(A) |-> FDiv(Det(SetCol(A, i, rhs)), d)]

lin_solve_values(A, rhs) ==
    IF ~MFinite(A) \/ ~VFinite(rhs) THEN [ok |-> TRUE, x |-> [i \in 1..Len(A) |-> NaN]]
    ELSE Let(Det(A), LAMBDA d :
             IF d = 0 THEN [ok |-> FALSE, x |-> rhs]
             ELSE [ok |-> TRUE, x |-> cramer(A, rhs, d)])

\* np.linalg.solve(A, rhs): raises LinAlgError when A is singular.
\* Result: [ok |-> solved without raising, x |-> the solution].
lin_solve(A, rhs) ==
    Let(A, LAMBDA Av : Let(rhs, LAMBDA bv : lin_solve_values(Av, bv)))

\* solve with a matrix of right-hand sides, column by column
solve_pos_mat(A, B) ==
    Let([j \in 1..NCols(B) |-> solve_pos(A, Col(B, j))], LAMBDA cols :
        [ok |-> \A j \in 1..NCols(B) : cols[j].ok,
         x |-> [i \in 1..Len(B) |-> [j \in 1..NCols(B) |-> cols[j].x[i]]]])

\* ------------------------------------------------------------------------
\* src/vlgp/core.py: dimensions of the fitted model
\* ------------------------------------------------------------------------

\* number of latent dimensions, of channels, of regressors; rank of the
\* low-rank prior factor; time steps per trial; number of trials
zdim == 2
ydim == 2
xdim == 1
rank == 1
TLen == 1
ntrial == 2

Half == Scale \div 2

Zeros(n) == [i \in 1..n |-> 0]
ZeroMat(r, c) == [i \in 1..r |-> Zeros(c)]
MSq(m) == [i \in 1..Len(m) |-> [j \in 1..Len(m[i]) |-> FMul(m[i][j], m[i][j])]]

\* Largest exponent trunc_exp lets through.
ExpTruncBound == 4

\* .math.trunc_exp: the exponential of the argument truncated from above
trunc_exp(x) ==
    IF IsNaN(x) THEN NaN
    ELSE FExp(IF x > ExpTruncBound * Scale THEN ExpTruncBound * Scale ELSE x)

\* .util.clip: every element brought into [-bound, bound] (NaN stays NaN)
clip(u, bound) ==
    [i \in 1..Len(u) |->
        IF IsNaN(u[i]) THEN NaN
        ELSE IF u[i] > bound THEN bound
        ELSE IF u[i] < 0 - bound THEN 0 - bound
        ELSE u[i]]

\* einsum("ijk, jk -> ik", x, b): the regression part of the linear predictor
xb_of(x, b) ==
    [t \in 1..Len(x) |->
        [n \in 1..ydim |-> FSum([j \in 1..xdim |-> FMul(x[t][j][n], b[j][n])])]]

\* eta = mu @ a + xb
eta_of(mu, a, xb) == MAdd(MatMul(mu, a), xb)

\* r = trunc_exp(eta + 0.5 * v @ (a ** 2))
rate_of(eta, v, a) ==
    Let(MatMul(v, MSq(a)), LAMBDA va :
        [t \in 1..Len(eta) |->
            [n \in 1..ydim |-> trunc_exp(FAdd(eta[t][n], FMul(Half, va[t][n])))]])

\* The working residuals of one trial: y - r on Poisson channels and
\* (y - eta) / noise on Gaussian channels.
residual_of(y, eta, r, likelihood, noise) ==
    [t \in 1..Len(y) |->
        [n \in 1..ydim |->
            IF likelihood[n] = "poisson" THEN FSub(y[t][n], r[t][n])
            ELSE FDiv(FSub(y[t][n], eta[t][n]), noise[n])]]

\* The update of mu[:, l] that takes the except branch (delta_mu = 0) when the
\* prior factor is all-zero
delta_mu_skipping_degenerate(l, mu, w, G, residual, a, dmu_bound) ==
    Let(Transpose(G), LAMBDA Gt :
    Let([t \in 1..Len(residual) |-> Dot(residual[t], a[l])], LAMBDA ra :
    Let(VSub(MatVec(G, MatVec(Gt, ra)), Col(mu, l)), LAMBDA u :
    Let([t \in 1..Len(G) |-> VScale(w[t][l], G[t])], LAMBDA WG :
    Let(MatMul(Gt, WG), LAMBDA GtWG :
    Let(MatVec(Transpose(WG), u), LAMBDA rhs :
    Let(solve_pos(MAdd(Identity(rank), GtWG), rhs), LAMBDA sol :
        IF sol.ok /\ G # ZeroMat(Len(G), rank)
        THEN clip(VAdd(VSub(u, MatVec(G, rhs)), MatVec(G, MatVec(GtWG, sol.x))),
                  dmu_bound)
        ELSE Zeros(Len(mu)))))))))

\* The update of mu[:, l] in infer_single_trial: the solve for M, the step
\* delta_mu clipped to dmu_bound, or 0 when the solve raises.
delta_mu_of(l, mu, w, G, residual, a, dmu_bound) ==
    Let(Transpose(G), LAMBDA Gt :
    Let([t \in 1..Len(residual) |-> Dot(residual[t], a[l])], LAMBDA ra :
    Let(VSub(MatVec(G, MatVec(Gt, ra)), Col(mu, l)), LAMBDA u :
    Let([t \in 1..Len(G) |-> VScale(w[t][l], G[t])], LAMBDA WG :
    Let(MatMul(Gt, WG), LAMBDA GtWG :
    Let(MatVec(Transpose(WG), u), LAMBDA rhs :
    Let(solve_pos(MAdd(Identity(rank), GtWG), rhs), LAMBDA sol :
        IF sol.ok
        THEN clip(VAdd(VSub(u, MatVec(G, rhs)), MatVec(G, MatVec(GtWG, sol.x))),
                  dmu_bound)
        ELSE Zeros(Len(mu)))))))))

\* for l in range(zdim): dmu[:, l] = delta_mu; mu[:, l] += delta_mu
RECURSIVE latent_loop(_, _, _, _, _, _, _)
latent_loop(l, st, w, prior, residual, a, dmu_bound) ==
    IF l > zdim THEN st
    ELSE Let(delta_mu_of(l, st.mu, w, prior[l], residual, a, dmu_bound), LAMBDA delta :
         Let([mu  |-> SetCol(st.mu, l, VAdd(Col(st.mu, l), delta)),
              dmu |-> SetCol(st.dmu, l, delta)], LAMBDA st2 :
             latent_loop(l + 1, st2, w, prior, residual, a, dmu_bound)))

\* w = U @ (a.T ** 2), U the rate on Poisson channels and 1 / noise on
\* Gaussian channels
w_of(r, a, likelihood, noise) ==
    Let([t \in 1..Len(r) |->
            [n \in 1..ydim |->
                IF likelihood[n] = "poisson" THEN r[t][n]
                ELSE FDiv(One, noise[n])]], LAMBDA U :
        MatMul(U, Transpose(MSq(a))))

\* The posterior variance v[:, l] (method "VB"): unchanged when the solve
\* raises.
v_col_of(l, v, w, G) ==
    Let(Transpose(G), LAMBDA Gt :
    Let([t \in 1..Len(G) |-> VScale(w[t][l], G[t])], LAMBDA WG :
    Let(MatMul(Gt, WG), LAMBDA GtWG :
    Let(solve_pos_mat(MAdd(Identity(rank), GtWG), GtWG), LAMBDA sol :
        IF sol.ok
        THEN Let(MAdd(MSub(G, MatMul(G, GtWG)), MatMul(G, MatMul(GtWG, sol.x))),
                 LAMBDA inner :
                 [t \in 1..Len(G) |->
                     FSum([k \in 1..rank |-> FMul(G[t][k], inner[t][k])])])
        ELSE Col(v, l)))))

RECURSIVE v_loop(_, _, _, _)
v_loop(l, v, w, prior) ==
    IF l > zdim THEN v
    ELSE Let(SetCol(v, l, v_col_of(l, v, w, prior[l])), LAMBDA v2 :
             v_loop(l + 1, v2, w, prior))

\* One pass of the loop "for i in range(max_iter)" of infer_single_trial.
infer_iteration(trial, params, config) ==
    Let(xb_of(trial.x, params.b), LAMBDA xb :
    Let(eta_of(trial.mu, params.a, xb), LAMBDA eta :
    Let(rate_of(eta, trial.v, params.a), LAMBDA r :
    Let(residual_of(trial.y, eta, r, params.likelihood, params.noise), LAMBDA res :
    Let(latent_loop(1, [mu |-> trial.mu, dmu |-> trial.dmu], trial.w,
                    params.cholesky, res, params.a, config.dmu_bound), LAMBDA st :
    Let(eta_of(st.mu, params.a, xb), LAMBDA eta2 :
    Let(rate_of(eta2, trial.v, params.a), LAMBDA r2 :
    Let(w_of(r2, params.a, params.likelihood, params.noise), LAMBDA w2 :
    Let(IF config.method = "VB" THEN v_loop(1, trial.v, w2, params.cholesky)
        ELSE trial.v, LAMBDA v2 :
        [trial EXCEPT !.mu = st.mu, !.dmu = st.dmu, !.w = w2, !.v = v2])))))))))

RECURSIVE infer_loop(_, _, _, _)
infer_loop(i, trial, params, config) ==
    IF i >= config.Eniter THEN trial
    ELSE Let(infer_iteration(trial, params, config), LAMBDA t2 :
             infer_loop(i + 1, t2, params, config))

\* infer_single_trial without the early return of Eniter < 1, its loop running
\* at least once
infer_single_trial_unguarded(trial, params, config) ==
    infer_iteration(trial, params, config)

\* infer_single_trial(trial, params, config)
infer_single_trial(trial, params, config) ==
    IF config.Eniter < 1 THEN trial
    ELSE infer_loop(0, trial, params, config)

\* estep with the weights w of the first trial left in place for the later ones
estep_carrying_over(trials, params, config) ==
    Let(infer_single_trial(trials[1], params, config), LAMBDA first :
        [i \in 1..Len(trials) |->
            IF i = 1 THEN first
            ELSE infer_single_trial([trials[i] EXCEPT !.w = first.w], params, config)])

\* estep(trials, params, config)
estep(trials, params, config) ==
    [i \in 1..Len(trials) |-> infer_single_trial(trials[i], params, config)]

\* ------------------------------------------------------------------------
\* src/vlgp/core.py: mstep
\* ------------------------------------------------------------------------

\* x[..., n]: the design matrix of channel n (time x regressor)
x_of_channel(x, n) == [t \in 1..Len(x) |-> [j \in 1..xdim |-> x[t][j][n]]]

AddDiag(m, d) == [i \in 1..Len(m) |-> [j \in 1..Len(m) |->
                    IF i = j THEN FAdd(m[i][j], d[i]) ELSE m[i][j]]]

\* np.var(c, ddof=0) of a vector
var_of(c) ==
    Let(FDiv(FSum(c), Len(c) * Scale), LAMBDA mn :
        FDiv(FSum([t \in 1..Len(c) |-> FMul(FSub(c[t], mn), FSub(c[t], mn))]),
             Len(c) * Scale))

\* np.var(d, axis=0, ddof=0) of the columns of d
var_cols(d) == Let(d, LAMBDA dv : [n \in 1..NCols(dv) |-> var_of(Col(dv, n))])

\* A Newton step of the Poisson branch: solve(nhess + jitter, grad) when the
\* Hessian is used and the solve does not raise, learning_rate * grad
\* otherwise; then clipped.
newton_or_gradient(nhess, grad, bound, config) ==
    Let(grad, LAMBDA g :
    Let(IF config.use_hessian
        THEN solve_pos(AddDiag(nhess, [i \in 1..Len(g) |-> config.eps]), g)
        ELSE [ok |-> FALSE, x |-> g], LAMBDA sol :
        clip(IF sol.ok THEN sol.x ELSE VScale(config.learning_rate, g), bound)))

\* mu + v * a[:, n]
mu_plus_v_times_a(mu, v, an) ==
    [t \in 1..Len(mu) |-> [l \in 1..zdim |-> FAdd(mu[t][l], FMul(v[t][l], an[l]))]]

\* r[:, n, np.newaxis] * m
rows_scaled(rn, m) == [t \in 1..Len(m) |-> VScale(rn[t], m[t])]

\* The Poisson branch of the channel loop for channel n.
poisson_channel(n, st, y, x, mu, v, r, config) ==
    Let(Col(st.a, n), LAMBDA an :
    Let(Col(y, n), LAMBDA yn :
    Let(Col(r, n), LAMBDA rn :
    Let(x_of_channel(x, n), LAMBDA xn :
    Let(mu_plus_v_times_a(mu, v, an), LAMBDA mpva :
    Let(VSub(MatVec(Transpose(mu), yn), MatVec(Transpose(mpva), rn)), LAMBDA grad_a :
    Let(AddDiag(MatMul(Transpose(mpva), rows_scaled(rn, mpva)),
                MatVec(Transpose(v), rn)), LAMBDA nhess_a :
    Let(newton_or_gradient(nhess_a, grad_a, config.da_bound, config), LAMBDA delta_a :
    Let(MatVec(Transpose(xn), VSub(yn, rn)), LAMBDA grad_b :
    Let(MatMul(Transpose(xn), rows_scaled(rn, xn)), LAMBDA nhess_b :
    Let(newton_or_gradient(nhess_b, grad_b, config.db_bound, config), LAMBDA delta_b :
        [st EXCEPT !.da = SetCol(st.da, n, delta_a),
                   !.a  = SetCol(st.a, n, VAdd(an, delta_a)),
                   !.db = SetCol(st.db, n, delta_b),
                   !.b  = SetCol(st.b, n, VAdd(Col(st.b, n), delta_b))])))))))))))

\* The Gaussian branch of the channel loop for channel n: the two least
\* squares solves, neither guarded by a try.
gaussian_channel(n, st, y, x, mu, v) ==
    Let(Col(y, n), LAMBDA yn :
    Let(x_of_channel(x, n), LAMBDA xn :
    Let(AddDiag(MatMul(Transpose(mu), mu), [l \in 1..zdim |-> FSum(Col(v, l))]),
        LAMBDA M :
    Let(solve_pos(M, MatVec(Transpose(mu), VSub(yn, MatVec(xn, Col(st.b, n))))),
        LAMBDA sola :
        IF ~sola.ok THEN [st EXCEPT !.raised = TRUE]
        ELSE Let(SetCol(st.a, n, sola.x), LAMBDA a2 :
             Let(solve_pos(MatMul(Transpose(xn), xn),
                           MatVec(Transpose(xn), VSub(yn, MatVec(mu, Col(a2, n))))),
                 LAMBDA solb :
                 IF ~solb.ok THEN [st EXCEPT !.a = a2, !.raised = TRUE]
                 ELSE [st EXCEPT !.a = a2,
                                 !.b = SetCol(st.b, n,
                                     [j \in 1..xdim |->
                                         IF j = 1 THEN solb.x[j] ELSE 0])]))))))

\* for n in range(ydim)
RECURSIVE channel_loop(_, _, _, _, _, _, _, _, _)
channel_loop(n, st, likelihood, y, x, mu, v, r, config) ==
    IF n > ydim \/ st.raised THEN st
    ELSE Let(IF likelihood[n] = "poisson"
             THEN poisson_channel(n, st, y, x, mu, v, r, config)
             ELSE IF likelihood[n] = "gaussian"
             THEN gaussian_channel(n, st, y, x, mu, v)
             ELSE st, LAMBDA st2 :
             channel_loop(n + 1, st2, likelihood, y, x, mu, v, r, config))

\* One pass of the loop "for i in range(niter)" of mstep; st carries a, b, da,
\* db, noise and whether a solve raised.
mstep_iteration(st, likelihood, y, x, mu, v, config) ==
    Let(eta_of(mu, st.a, xb_of(x, st.b)), LAMBDA eta :
    Let(rate_of(eta, v, st.a), LAMBDA r :
    Let(var_cols(MSub(y, eta)), LAMBDA noise :
    Let(channel_loop(1, st, likelihood, y, x, mu, v, r, config), LAMBDA st2 :
        IF st2.raised THEN st2 ELSE [st2 EXCEPT !.noise = noise]))))

RECURSIVE mstep_loop(_, _, _, _, _, _, _, _)
mstep_loop(i, st, likelihood, y, x, mu, v, config) ==
    IF i >= config.Mniter \/ st.raised THEN st
    ELSE Let(mstep_iteration(st, likelihood, y, x, mu, v, config), LAMBDA st2 :
             mstep_loop(i + 1, st2, likelihood, y, x, mu, v, config))

\* mstep(trials, params, config): the params it leaves, and whether it raised
mstep(trials, params, config) ==
    IF config.Mniter < 1 THEN [params |-> params, raised |-> FALSE]
    ELSE Let(Concat([i \in 1..Len(trials) |-> trials[i].y]), LAMBDA y :
         Let(Concat([i \in 1..Len(trials) |-> trials[i].x]), LAMBDA x :
         Let(Concat([i \in 1..Len(trials) |-> trials[i].mu]), LAMBDA mu :
         Let(Concat([i \in 1..Len(trials) |-> trials[i].v]), LAMBDA v :
         Let(mstep_loop(0, [a |-> params.a, b |-> params.b, da |-> params.da,
                            db |-> params.db, noise |-> params.noise,
                            raised |-> FALSE],
                        params.likelihood, y, x, mu, v, config), LAMBDA st :
             [params |-> [params EXCEPT !.a = st.a, !.b = st.b, !.da = st.da,
                                        !.db = st.db, !.noise = st.noise],
              raised |-> st.raised])))))

\* ------------------------------------------------------------------------
\* src/vlgp/core.py: constrain_latent, constrain_loading, hstep
\* ------------------------------------------------------------------------

\* np.concatenate([trial[key] ...], axis=0) for the keys mu and dmu
all_mu(ts) == Concat([i \in 1..Len(ts) |-> ts[i].mu])
all_dmu(ts) == Concat([i \in 1..Len(ts) |-> ts[i].dmu])

\* mu.mean(axis=0) and mu.std(axis=0) of the latent means of all trials
mean_over(mu) == [l \in 1..NCols(mu) |-> FDiv(FSum(Col(mu, l)), Len(mu) * Scale)]
std_over(mu) == [l \in 1..NCols(mu) |-> FSqrt(var_of(Col(mu, l)))]

\* trial["mu"] -= mean_over_trials; trial["mu"] /= std_over_trials
centered(m, mean) == [t \in 1..Len(m) |-> VSub(m[t], mean)]
scaled(m, std) == [t \in 1..Len(m) |-> [l \in 1..zdim |-> FDiv(m[t][l], std[l])]]

\* constrain_latent(trials, params, config): the trials and params it leaves
constrain_latent(trials, params, config) ==
    IF config.constrain_latent = "none" THEN [trials |-> trials, params |-> params]
    ELSE
    Let(all_mu(trials), LAMBDA mu :
    Let(mean_over(mu), LAMBDA mean :
    Let(std_over(mu), LAMBDA std :
    Let(config.constrain_latent \in {"location", "both"}, LAMBDA loc :
    Let(config.constrain_latent \in {"scale", "both"}, LAMBDA scl :
        [trials |-> [i \in 1..Len(trials) |->
                        Let(IF loc THEN centered(trials[i].mu, mean) ELSE trials[i].mu,
                            LAMBDA m1 :
                            [trials[i] EXCEPT !.mu = IF scl THEN scaled(m1, std) ELSE m1])],
         params |-> [params EXCEPT
                        !.b = IF loc
                              THEN [params.b EXCEPT
                                       ![1] = VAdd(params.b[1],
                                                   MatVec(Transpose(params.a), mean))]
                              ELSE params.b,
                        !.a = IF scl
                              THEN [l \in 1..zdim |-> VScale(std[l], params.a[l])]
                              ELSE params.a]])))))

\* scipy.linalg.svd(a, full_matrices=False) of a 2 x 2 loading matrix: the
\* factor v of a = u @ diag(s) @ v, whose rows are the unit eigenvectors of
\* a.T @ a, largest eigenvalue first.  With G = a.T @ a = [[p, q], [q, r]]
\* and h = (p - r) / 2 the largest eigenvalue is (p + r) / 2 + sqrt(h^2 + q^2),
\* and the second row is the first turned by a right angle.  The signs of the
\* rows are LAPACK's choice; one choice is taken.
svd_v(a) ==
    Let(MatMul(Transpose(a), a), LAMBDA G :
    Let(FDiv(FSub(G[1][1], G[2][2]), 2 * Scale), LAMBDA h :
    Let(FSqrt(FAdd(FMul(h, h), FMul(G[1][2], G[1][2]))), LAMBDA rad :
        IF G[1][2] = 0
        THEN (IF G[1][1] >= G[2][2] THEN Identity(2) ELSE <<<<0, One>>, <<One, 0>>>>)
        ELSE Let(IF G[1][1] >= G[2][2] THEN <<FAdd(h, rad), G[1][2]>>
                 ELSE <<G[1][2], FSub(rad, h)>>, LAMBDA w :
             Let(norm(w), LAMBDA nrm :
                 IF nrm = 0 THEN Identity(2)
                 ELSE Let(FDiv(w[1], nrm), LAMBDA c : Let(FDiv(w[2], nrm), LAMBDA sn :
                          <<<<c, sn>>, <<0 - sn, c>>>>)))))))

\* us = a @ v, the transposition forgotten
us_of_untransposed(a, v) == MatMul(a, v)

\* us = a @ v.T
us_of(a, v) == MatMul(a, Transpose(v))

\* s = norm(a, ord="fro") + eps, or norm(a, ord=constraint, axis=1,
\* keepdims=True) + eps for the row norm of order 2: one divisor per row of a
loading_scale(a, constraint, eps) ==
    IF constraint = "fro"
    THEN Let(FAdd(normF(a), eps), LAMBDA f : [l \in 1..zdim |-> f])
    ELSE [l \in 1..zdim |-> FAdd(norm(a[l]), eps)]

\* constrain_loading(trials, params, config) in the modes "none", "svd",
\* "fro" and the row norm of order 2: the trials and params it leaves, and
\* whether it raised (svd refuses a matrix that is not finite)
constrain_loading(trials, params, config) ==
    IF config.constrain_loading = "none"
    THEN [trials |-> trials, params |-> params, raised |-> FALSE]
    ELSE IF config.constrain_loading = "svd"
    THEN IF ~MFinite(params.a)
         THEN [trials |-> trials, params |-> params, raised |-> TRUE]
         ELSE Let(svd_v(params.a), LAMBDA v :
              Let(us_of(params.a, v), LAMBDA us :
                  [trials |-> [i \in 1..Len(trials) |->
                                  [trials[i] EXCEPT !.mu = MatMul(trials[i].mu, us)]],
                   params |-> [params EXCEPT !.a = v],
                   raised |-> FALSE]))
    ELSE
    Let(loading_scale(params.a, config.constrain_loading, config.eps), LAMBDA s :
        [trials |-> [i \in 1..Len(trials) |->
                        [trials[i] EXCEPT !.mu =
                            [t \in 1..Len(trials[i].mu) |->
                                [l \in 1..zdim |-> FMul(trials[i].mu[t][l], s[l])]]]],
         params |-> [params EXCEPT !.a =
                        [l \in 1..zdim |->
                            [n \in 1..ydim |-> FDiv(params.a[l][n], s[l])]]],
         raised |-> FALSE])

\* The outcomes of the external gp.optimize(trials, params, config).
OptimizeOutcomes == {"ok", "raise"}

\* The outcomes of one callback call.
CallbackOutcomes == {"ok", "RuntimeError", "OtherError"}

\* ------------------------------------------------------------------------
\* src/vlgp/core.py: vem, one action per step of the outer loop
\* ------------------------------------------------------------------------

VARIABLES
    vb,         \* the state of variational() of src/vb.py
    vpc,        \* the place variational() is at
    trials,     \* the list of trials: y, x, mu, w, v, dmu of each
    params,     \* a, b, noise, da, db, likelihood, cholesky
    config,     \* the run's configuration
    pc,         \* the place vem() is at
    it,         \* the loop variable of "for it in range(niter)"
    norms,      \* norm_mu, norm_a, norm_b snapshotted in this iteration
    cbi,        \* the number of callbacks called in this iteration
    runtime,    \* runtime["it"]
    steps,      \* the steps executed so far, in order, each with its iteration
    logged,     \* the number of callback failures logged
    exit,       \* how the loop was left: "", "break", "exhausted", "exception"
    ret         \* what the caller gets: the convergence flag returned ("none"
                \* when no flag is returned) and the warnings issued

coreVars == <<trials, params, config, pc, it, norms, cbi, runtime, steps, logged,
              exit, ret>>

\* Largest max_iter of the configurations explored.
MaxIter == 2

\* Largest number of configured callbacks.
MaxCallbacks == 2

\* converged = norm(dmu) < tol * norm_mu and norm(da) < tol * norm_a
\*             and norm(db) < tol * norm_b
converged(ts, ps, cf, nm) ==
    /\ FLt(normF(all_dmu(ts)), FMul(cf.tol, nm.norm_mu))
    /\ FLt(normF(ps.da), FMul(cf.tol, nm.norm_a))
    /\ FLt(normF(ps.db), FMul(cf.tol, nm.norm_b))

\* should_stop without the minimum iteration count
should_stop_ignoring_min_iter(ts, ps, cf, nm, i) == converged(ts, ps, cf, nm)

\* should_stop = converged and it + 1 >= config["min_iter"]
should_stop(ts, ps, cf, nm, i) == converged(ts, ps, cf, nm) /\ i + 1 >= cf.min_iter

\* update_w / update_v: the w and v a trial carries into vem()
prepared(trial, ps, cf) ==
    Let(eta_of(trial.mu, ps.a, xb_of(trial.x, ps.b)), LAMBDA eta :
    Let(w_of(rate_of(eta, trial.v, ps.a), ps.a, ps.likelihood, ps.noise), LAMBDA w :
        [trial EXCEPT !.w = w,
                      !.v = IF cf.method = "VB" THEN v_loop(1, trial.v, w, ps.cholesky)
                            ELSE trial.v]))

\* The inputs explored.
Likelihoods == {<<"poisson", "gaussian">>, <<"gaussian", "gaussian">>}
Regressions == {<<<<0, 0>>>>, <<<<Half, 0 - Half>>>>}
Factors == {<<<<One>>>>, <<<<0>>>>}
Tols == {One \div 4, 2 * One}
Profiles ==
    {[method |-> "VB", use_hessian |-> TRUE, constrain_latent |-> "none",
      constrain_loading |-> "none", Hstep |-> FALSE, callbacks |-> 0],
     [method |-> "MAP", use_hessian |-> FALSE, constrain_latent |-> "location",
      constrain_loading |-> "fro", Hstep |-> FALSE, callbacks |-> MaxCallbacks],
     [method |-> "VB", use_hessian |-> TRUE, constrain_latent |-> "scale",
      constrain_loading |-> "2", Hstep |-> TRUE, callbacks |-> 1],
     [method |-> "VB", use_hessian |-> FALSE, constrain_latent |-> "both",
      constrain_loading |-> "none", Hstep |-> FALSE, callbacks |-> 1],
     [method |-> "MAP", use_hessian |-> TRUE, constrain_latent |-> "none",
      constrain_loading |-> "fro", Hstep |-> TRUE, callbacks |-> 0],
     [method |-> "MAP", use_hessian |-> TRUE, constrain_latent |-> "location",
      constrain_loading |-> "svd", Hstep |-> FALSE, callbacks |-> 0]}

Trial0(y, mu) ==
    [y |-> y, x |-> [t \in 1..TLen |-> [j \in 1..xdim |-> [n \in 1..ydim |-> One]]],
     mu |-> mu, w |-> ZeroMat(TLen, zdim), v |-> ZeroMat(TLen, zdim),
     dmu |-> ZeroMat(TLen, zdim)]

\* The params, trials and config vem() is called with; the iteration counts
\* and the tolerance of the config are chosen apart.
vem_arguments(lk, b0, g2, pr) ==
    Let([a |-> <<<<One, 0>>, <<Half, One>>>>, b |-> b0,
         noise |-> [n \in 1..ydim |-> One],
         da |-> ZeroMat(zdim, ydim), db |-> ZeroMat(xdim, ydim),
         likelihood |-> lk, cholesky |-> <<<<<<One>>>>, g2>>], LAMBDA ps :
    Let([method |-> pr.method, use_hessian |-> pr.use_hessian,
         dmu_bound |-> One, da_bound |-> One, db_bound |-> One,
         eps |-> One \div 8, learning_rate |-> One \div 8,
         constrain_latent |-> pr.constrain_latent,
         constrain_loading |-> pr.constrain_loading,
         Hstep |-> pr.Hstep, callbacks |-> pr.callbacks], LAMBDA cf :
        [params |-> ps, config |-> cf,
         trials |-> <<prepared(Trial0(<<<<0, 2 * One>>>>, <<<<0, 0>>>>), ps, cf),
                      prepared(Trial0(<<<<One, 0>>>>, <<<<Half, One>>>>), ps, cf)>>]))

InitCore ==
    /\ \E lk \in Likelihoods, b0 \in Regressions, g2 \in Factors, pr \in Profiles :
          \E r \in {vem_arguments(lk, b0, g2, pr)} :
             \E tol \in Tols, en \in 0..1, mn \in 0..1, mi \in 1..2, mx \in 1..MaxIter :
                /\ params = r.params
                /\ config = r.config @@ [Eniter |-> en, Mniter |-> mn, max_iter |-> mx,
                                         min_iter |-> mi, tol |-> tol]
                /\ trials = r.trials
    /\ pc = "for"
    /\ it = 0 - 1
    /\ norms = [norm_mu |-> 0, norm_a |-> 0, norm_b |-> 0]
    /\ cbi = 0
    /\ runtime = 0
    /\ steps = << >>
    /\ logged = 0
    /\ exit = ""
    /\ ret = [convergent |-> "none", warnings |-> 0]

\* for it in range(niter): the next iteration, or the end of the loop
ForIt ==
    /\ pc = "for"
    /\ IF it + 1 < config.max_iter
       THEN /\ it' = it + 1
            /\ pc' = "snapshot"
            /\ exit' = exit
       ELSE /\ it' = it
            /\ pc' = "returned"
            /\ exit' = "exhausted"
    /\ UNCHANGED <<trials, params, config, norms, cbi, runtime, steps, logged, ret, vb, vpc>>

\* runtime["it"] += 1; norm_mu, norm_a, norm_b = norm(mu), norm(a), norm(b)
Snapshot ==
    /\ pc = "snapshot"
    /\ runtime' = runtime + 1
    /\ norms' = [norm_mu |-> normF(all_mu(trials)), norm_a |-> normF(params.a),
                 norm_b |-> normF(params.b)]
    /\ pc' = "constrain_loading"
    /\ steps' = Append(steps, [step |-> "snapshot", it |-> it])
    /\ UNCHANGED <<trials, params, config, it, cbi, logged, exit, ret, vb, vpc>>

\* constrain_loading(trials, params, config); an exception of svd leaves vem()
ConstrainLoading ==
    /\ pc = "constrain_loading"
    /\ \E r \in {constrain_loading(trials, params, config)} :
          /\ trials' = r.trials /\ params' = r.params
          /\ pc' = IF r.raised THEN "raised" ELSE "estep"
          /\ exit' = IF r.raised THEN "exception" ELSE exit
    /\ steps' = Append(steps, [step |-> "constrain_loading", it |-> it])
    /\ UNCHANGED <<config, it, norms, cbi, runtime, logged, ret, vb, vpc>>

\* The E-step going straight on to mstep, constrain_latent left out
EStep_skipping_constrain_latent ==
    /\ pc = "estep"
    /\ trials' = estep(trials, params, config)
    /\ pc' = "mstep"
    /\ steps' = Append(steps, [step |-> "estep", it |-> it])
    /\ UNCHANGED <<params, config, it, norms, cbi, runtime, logged, exit, ret, vb, vpc>>

EStep ==
    /\ pc = "estep"
    /\ trials' = estep(trials, params, config)
    /\ pc' = "constrain_latent"
    /\ steps' = Append(steps, [step |-> "estep", it |-> it])
    /\ UNCHANGED <<params, config, it, norms, cbi, runtime, logged, exit, ret, vb, vpc>>

ConstrainLatent ==
    /\ pc = "constrain_latent"
    /\ \E r \in {constrain_latent(trials, params, config)} :
          trials' = r.trials /\ params' = r.params
    /\ pc' = "mstep"
    /\ steps' = Append(steps, [step |-> "constrain_latent", it |-> it])
    /\ UNCHANGED <<config, it, norms, cbi, runtime, logged, exit, ret, vb, vpc>>

\* mstep(trials, params, config); an exception of its unguarded solves leaves
\* vem()
MStep ==
    /\ pc = "mstep"
    /\ \E r \in {mstep(trials, params, config)} :
          /\ params' = r.params
          /\ pc' = IF r.raised THEN "raised" ELSE "hstep"
          /\ exit' = IF r.raised THEN "exception" ELSE exit
    /\ steps' = Append(steps, [step |-> "mstep", it |-> it])
    /\ UNCHANGED <<trials, config, it, norms, cbi, runtime, logged, ret, vb, vpc>>

\* hstep(trials, params, config): nothing unless config["Hstep"]; otherwise
\* the external optimizer, whose exceptions are not caught
HStep ==
    /\ pc = "hstep"
    /\ \E o \in OptimizeOutcomes :
          /\ (~config.Hstep) => o = "ok"
          /\ pc' = IF o = "raise" THEN "raised" ELSE "callbacks"
          /\ exit' = IF o = "raise" THEN "exception" ELSE exit
    /\ cbi' = 0
    /\ steps' = Append(steps, [step |-> "hstep", it |-> it])
    /\ UNCHANGED <<trials, params, config, it, norms, runtime, logged, ret, vb, vpc>>

\* What vem() does with the outcome o of a callback call: "next" callback
\* (after logging when the except clause caught it) or "raise".
callback_handling(o) ==
    IF o = "ok" THEN [to |-> "next", log |-> 0]
    ELSE IF o = "RuntimeError" THEN [to |-> "next", log |-> 1]
    ELSE [to |-> "raise", log |-> 0]

\* for callback in callbacks: try: callback(...) except RuntimeError: log
Callback ==
    /\ pc = "callbacks"
    /\ cbi < config.callbacks
    /\ \E o \in CallbackOutcomes :
          LET h == callback_handling(o)
          IN /\ logged' = logged + h.log
             /\ pc' = IF h.to = "raise" THEN "raised" ELSE "callbacks"
             /\ exit' = IF h.to = "raise" THEN "exception" ELSE exit
    /\ cbi' = cbi + 1
    /\ steps' = Append(steps, [step |-> "callback", it |-> it])
    /\ UNCHANGED <<trials, params, config, it, norms, runtime, ret, vb, vpc>>

\* the convergence check, and the break
Check ==
    /\ pc = "callbacks"
    /\ cbi >= config.callbacks
    /\ IF should_stop(trials, params, config, norms, it)
       THEN pc' = "returned" /\ exit' = "break"
       ELSE pc' = "for" /\ exit' = exit
    /\ steps' = Append(steps, [step |-> "check", it |-> it,
                                converged |-> converged(trials, params, config, norms)])
    /\ UNCHANGED <<trials, params, config, it, norms, cbi, runtime, logged, ret, vb, vpc>>

NextCore ==
    \/ ForIt
    \/ Snapshot
    \/ ConstrainLoading
    \/ EStep
    \/ ConstrainLatent
    \/ MStep
    \/ HStep
    \/ Callback
    \/ Check


\* ------------------------------------------------------------------------
\* src/vb.py: variational(), with p = 0 and intercept = True
\* ------------------------------------------------------------------------

\* T, N = y.shape; _, L = mu.shape
vbT == 2
vbN == 2
vbL == 1

\* np.finfo(np.float).eps: the spacing of the number model at 1.0
FinfoEps == 1
\* eps = 2 * np.finfo(np.float).eps
vb_eps == 2 * FinfoEps

\* dec = 0.5, inc = 1.5, thld = 0.75
dec == Scale \div 2
inc == Scale + Scale \div 2
thld == Scale - Scale \div 4

\* history(y, 0, True): the intercept column alone
history(y) == [t \in 1..Len(y) |-> <<One>>]

\* np.nan_to_num
nan_to_num(x) == IF IsNaN(x) THEN 0
                 ELSE IF x = PInf THEN MaxFin
                 ELSE IF x = NInf THEN 0 - MaxFin
                 ELSE x

\* saferate(t, n, Y, m, V, b, a)
saferate(t, n, Y, m, V, b, a) ==
    Let(FAdd(FAdd(Dot(Y[t], Col(b, n)), Dot(m[t], Col(a, n))),
             FMul(Half, FSum([l \in 1..vbL |->
                                 FMul(FMul(a[l][n], a[l][n]), V[l][t][t])]))),
        LAMBDA lograte :
    Let(nan_to_num(FExp(lograte)), LAMBDA rate :
        IF rate > 0 THEN rate ELSE FinfoEps))

\* updaterate(t, n): the rate cache with the entries of the times ts and the
\* channels ns recomputed from the live m, V, b, a
updaterate(s, ts, ns) ==
    [t \in 1..vbT |->
        [n \in 1..vbN |->
            IF t \in ts /\ n \in ns THEN saferate(t, n, s.Y, s.m, s.V, s.b, s.a)
            ELSE s.rate[t][n]]]

\* np.linalg.slogdet(V)[1]: the logarithm of |det V|
logabsdet(V) == FLog(FAbs(Det(V)))

trace(A) == FSum([i \in 1..Len(A) |-> A[i][i]])

\* lowerbound(y, b, a, mu, omega, m, V, Y=Y, rate=rate), complete=False
lowerbound(s) ==
    Let(MAdd(MatMul(s.Y, s.b), MatMul(s.m, s.a)), LAMBDA lin :
    Let(FSum(Concat([t \in 1..vbT |->
                        [n \in 1..vbN |->
                            FSub(FMul(s.y[t][n], lin[t][n]), s.rate[t][n])]])),
        LAMBDA data :
        LET RECURSIVE prior(_, _)
            prior(l, acc) ==
                IF l > vbL THEN acc
                ELSE Let(VSub(Col(s.m, l), Col(s.mu, l)), LAMBDA d :
                     prior(l + 1,
                           FAdd(acc,
                                FAdd(FAdd(FMul(0 - Half, Dot(d, MatVec(s.omega[l], d))),
                                          FMul(0 - Half, trace(MatMul(s.omega[l], s.V[l])))),
                                     FMul(Half, logabsdet(s.V[l]))))))
        IN prior(1, data)))

\* The damped Newton step of one block with gradient grad, Hessian hess and
\* trust scalar r: "break" when the gradient is below eps, "singular" when
\* the solve raises, else the step delta and its predicted improvement.
newton(grad, hess, r) ==
    IF FLt(normInf(grad), vb_eps) THEN [kind |-> "break"]
    ELSE Let(lin_solve(hess, grad), LAMBDA sol :
             IF ~sol.ok THEN [kind |-> "singular"]
             ELSE Let(VScale(FNeg(r), sol.x), LAMBDA delta :
                      [kind |-> "step", delta |-> delta,
                       predict |-> FAdd(Dot(grad, delta),
                                        FMul(Half, Dot(delta, MatVec(hess, delta))))]))

\* r after a rejected step: dec * r + eps
shrink(r) == FAdd(FMul(dec, r), vb_eps)
\* r after a step that gained more than thld * predict: r * inc
grow(r) == FMul(r, inc)

\* The reference bound a candidate step is compared with: lbound[it - 1]
reference(s) == s.lbound[s.it]

\* if np.isnan(lb) or lb < lbound[it - 1]
rejected(lb, ref) == IsNaN(lb) \/ FLt(lb, ref)
\* if np.isnan(lb) or lb - lbound[it - 1] < 0
rejected_diff(lb, ref) == IsNaN(lb) \/ FLt(FSub(lb, ref), 0)
\* elif lb - lbound[it - 1] > thld * predict
gained(lb, ref, predict) == FGt(FSub(lb, ref), FMul(thld, predict))

SetAt(u, i, x) == [u EXCEPT ![i] = x]
\* What the last pass of a block loop did: "break", "singular", or a step that
\* was "rejected", "grown" or "kept", with the bound lb recomputed after it.
Outcome(kind, i, res, lb) == [kind |-> kind, i |-> i, res |-> res, lb |-> lb]

\* A pass of a block loop that shrinks the block's trust scalar when its solve
\* fails.
skipped_shrinking_trust(s, blk, i, kind) ==
    [s EXCEPT !.outcome = Outcome(blk, i, kind, 0),
              !.rb = IF kind = "singular" /\ blk = "b" THEN SetAt(s.rb, i, shrink(s.rb[i]))
                     ELSE s.rb,
              !.ra = IF kind = "singular" /\ blk = "a" THEN SetAt(s.ra, i, shrink(s.ra[i]))
                     ELSE s.ra,
              !.rm = IF kind = "singular" /\ blk = "m" THEN SetAt(s.rm, i, shrink(s.rm[i]))
                     ELSE s.rm]
\* A pass of a block loop that attempts no step: "break" on a small gradient,
\* "continue" in the handler of np.linalg.LinAlgError. Nothing is assigned.
skipped(s, blk, i, kind) == [s EXCEPT !.outcome = Outcome(blk, i, kind, 0)]

\* The pass of the loop "for n in range(N)" for channel n: the update of
\* b[:, n].
block_b(s, n) ==
    Let(MatVec(Transpose(s.Y), VSub(Col(s.y, n), Col(s.rate, n))), LAMBDA grad_b :
    Let(MatMul(Transpose(s.Y), rows_scaled([t \in 1..vbT |-> FNeg(s.rate[t][n])], s.Y)),
        LAMBDA hess_b :
    Let(newton(grad_b, hess_b, s.rb[n]), LAMBDA nw :
        IF nw.kind # "step" THEN skipped(s, "b", n, nw.kind)
        ELSE
        Let([s EXCEPT !.last_b = SetCol(s.last_b, n, Col(s.b, n)),
                      !.last_rate = SetCol(s.last_rate, n, Col(s.rate, n)),
                      !.b = SetCol(s.b, n, VAdd(Col(s.b, n), nw.delta))], LAMBDA s1 :
        Let([s1 EXCEPT !.rate = updaterate(s1, 1..vbT, {n})], LAMBDA s2 :
        Let(lowerbound(s2), LAMBDA lb :
            IF rejected(lb, reference(s))
            THEN [s2 EXCEPT !.rb = SetAt(s.rb, n, shrink(s.rb[n])),
                            !.b = SetCol(s2.b, n, Col(s2.last_b, n)),
                            !.rate = SetCol(s2.rate, n, Col(s2.last_rate, n)),
                            !.outcome = Outcome("b", n, "rejected", lb)]
            ELSE IF gained(lb, reference(s), nw.predict)
            THEN [s2 EXCEPT !.rb = SetAt(s.rb, n, grow(s.rb[n])),
                            !.outcome = Outcome("b", n, "grown", lb)]
            ELSE [s2 EXCEPT !.outcome = Outcome("b", n, "kept", lb)]))))))

\* V[l, :, :].diagonal()
diagonal(A) == [t \in 1..Len(A) |-> A[t][t]]
\* np.diag(u)
diag(u) == [i \in 1..Len(u) |-> [j \in 1..Len(u) |-> IF i = j THEN u[i] ELSE 0]]
VMul(u, v) == [i \in 1..Len(u) |-> FMul(u[i], v[i])]
Two == 2 * One

grad_a_of(s, l) ==
    VSub(MatVec(Transpose(MSub(s.y, s.rate)), Col(s.m, l)),
         VMul(MatVec(Transpose(s.rate), diagonal(s.V[l])), s.a[l]))

hess_a_of(s, l) ==
    Let(Transpose(s.rate), LAMBDA rT :
    Let(Col(s.m, l), LAMBDA ml :
    Let(diagonal(s.V[l]), LAMBDA Vd :
        diag([n \in 1..vbN |->
                FNeg(FAdd(FAdd(FAdd(Dot(rT[n], VMul(ml, ml)),
                                    FMul(FMul(Two, Dot(rT[n], VMul(ml, Vd))), s.a[l][n])),
                               FMul(Dot(rT[n], VMul(Vd, Vd)), FMul(s.a[l][n], s.a[l][n]))),
                          Dot(rT[n], Vd)))]))))

grad_a_lag_of(s, l, grad_a) ==
    VAdd(grad_a, VScale(FMul(Two, s.lam_a[l]), s.a[l]))
      \o <<FSub(Dot(s.a[l], s.a[l]), FMul(s.anorm, s.anorm))>>

hess_a_lag_of(s, l, hess_a) ==
    Let(VScale(Two, s.a[l]), LAMBDA twoa :
        [i \in 1..(vbN + 1) |->
            [j \in 1..(vbN + 1) |->
                IF i <= vbN /\ j <= vbN
                THEN FAdd(hess_a[i][j], FMul(FMul(Two, s.lam_a[l]), Identity(vbN)[i][j]))
                ELSE IF i > vbN /\ j > vbN THEN 0
                ELSE IF i > vbN THEN twoa[j] ELSE twoa[i]]])

\* A shrink without the additive floor.
shrink2_without_floor(r) == FMul(r, dec)
\* ra[l] *= dec; ra[l] += eps
shrink2(r) == FAdd(FMul(r, dec), vb_eps)

\* if np.linalg.norm(a[l, :]) > 0: a[l, :] /= np.linalg.norm(a[l, :]) / anorm
normalized(al, anorm) ==
    Let(norm(al), LAMBDA na :
        IF FGt(na, 0) THEN Let(FDiv(na, anorm), LAMBDA q :
                               [n \in 1..Len(al) |-> FDiv(al[n], q)])
        ELSE al)

\* The pass of the loop "for l in range(L)" of the loading for latent l,
\* constrain_a == 'lag'.
block_a_lag(s, l) ==
    Let(grad_a_lag_of(s, l, grad_a_of(s, l)), LAMBDA grad :
    Let(hess_a_lag_of(s, l, hess_a_of(s, l)), LAMBDA hess :
    Let(newton(grad, hess, s.ra[l]), LAMBDA nw :
        IF nw.kind # "step" THEN skipped(s, "a", l, nw.kind)
        ELSE
        Let([s EXCEPT !.lam_last_a = SetAt(s.lam_last_a, l, s.lam_a[l]),
                      !.last_a = SetAt(s.last_a, l, s.a[l]),
                      !.last_rate = s.rate,
                      !.a = SetAt(s.a, l, VAdd(s.a[l], SubSeq(nw.delta, 1, vbN))),
                      !.lam_a = SetAt(s.lam_a, l, FAdd(s.lam_a[l], nw.delta[vbN + 1]))],
            LAMBDA s1 :
        Let([s1 EXCEPT !.rate = updaterate(s1, 1..vbT, 1..vbN)], LAMBDA s2 :
        Let(lowerbound(s2), LAMBDA lb :
            IF rejected_diff(lb, reference(s))
            THEN [s2 EXCEPT !.ra = SetAt(s.ra, l, shrink2(s.ra[l])),
                            !.a = SetAt(s2.a, l, s2.last_a[l]),
                            !.rate = s2.last_rate,
                            !.lam_a = SetAt(s2.lam_a, l, s2.lam_last_a[l]),
                            !.outcome = Outcome("a", l, "rejected", lb)]
            ELSE IF gained(lb, reference(s), nw.predict)
            THEN [s2 EXCEPT !.ra = SetAt(s.ra, l, grow(s.ra[l])),
                            !.outcome = Outcome("a", l, "grown", lb)]
            ELSE [s2 EXCEPT !.outcome = Outcome("a", l, "kept", lb)]))))))

\* The same pass with constrain_a != 'lag': the row is rescaled to anorm
\* after the step was accepted or rejected.
block_a_plain(s, l) ==
    Let(grad_a_of(s, l), LAMBDA grad :
    Let(hess_a_of(s, l), LAMBDA hess :
    Let(newton(grad, hess, s.ra[l]), LAMBDA nw :
        IF nw.kind # "step" THEN skipped(s, "a", l, nw.kind)
        ELSE
        Let([s EXCEPT !.last_a = SetAt(s.last_a, l, s.a[l]),
                      !.last_rate = s.rate,
                      !.a = SetAt(s.a, l, VAdd(s.a[l], nw.delta))], LAMBDA s1 :
        Let([s1 EXCEPT !.rate = updaterate(s1, 1..vbT, 1..vbN)], LAMBDA s2 :
        Let(lowerbound(s2), LAMBDA lb :
        Let(IF rejected_diff(lb, reference(s))
            THEN [s2 EXCEPT !.ra = SetAt(s.ra, l, shrink2(s.ra[l])),
                            !.a = SetAt(s2.a, l, s2.last_a[l]),
                            !.rate = s2.last_rate,
                            !.outcome = Outcome("a", l, "rejected", lb)]
            ELSE IF gained(lb, reference(s), nw.predict)
            THEN [s2 EXCEPT !.ra = SetAt(s.ra, l, grow(s.ra[l])),
                            !.outcome = Outcome("a", l, "grown", lb)]
            ELSE [s2 EXCEPT !.outcome = Outcome("a", l, "kept", lb)], LAMBDA s3 :
            [s3 EXCEPT !.a = SetAt(s3.a, l, normalized(s3.a[l], s.anorm))])))))))

block_a(s, l) == IF s.constrain_a = "lag" THEN block_a_lag(s, l) ELSE block_a_plain(s, l)

grad_m_of(s, l) ==
    VSub(MatVec(MSub(s.y, s.rate), s.a[l]),
         MatVec(s.omega[l], VSub(Col(s.m, l), Col(s.mu, l))))

hess_m_of(s, l) ==
    MSub(diag(MatVec([t \in 1..vbT |-> [n \in 1..vbN |-> FNeg(s.rate[t][n])]],
                     VMul(s.a[l], s.a[l]))),
         s.omega[l])

grad_m_lag_of(s, l, grad_m) ==
    [t \in 1..vbT |-> FAdd(grad_m[t], s.lam_m[l])] \o <<FSum(Col(s.m, l))>>

hess_m_lag_of(hess_m) ==
    [i \in 1..(vbT + 1) |->
        [j \in 1..(vbT + 1) |->
            IF i <= vbT /\ j <= vbT THEN hess_m[i][j]
            ELSE IF i > vbT /\ j > vbT THEN 0
            ELSE One]]

\* np.mean(u)
mean(u) == FDiv(FSum(u), Len(u) * One)

\* The pass of the loop "for l in range(L)" of the posterior mean for latent
\* l, constrain_m == 'lag'.
block_m_lag(s, l) ==
    Let(grad_m_lag_of(s, l, grad_m_of(s, l)), LAMBDA grad :
    Let(hess_m_lag_of(hess_m_of(s, l)), LAMBDA hess :
    Let(newton(grad, hess, s.rm[l]), LAMBDA nw :
        IF nw.kind # "step" THEN skipped(s, "m", l, nw.kind)
        ELSE
        Let([s EXCEPT !.last_m = SetCol(s.last_m, l, Col(s.m, l)),
                      !.last_rate = s.rate,
                      !.lam_last_m = SetAt(s.lam_last_m, l, s.lam_m[l]),
                      !.m = SetCol(s.m, l, VAdd(Col(s.m, l), SubSeq(nw.delta, 1, vbT))),
                      !.lam_m = SetAt(s.lam_m, l, FAdd(s.lam_m[l], nw.delta[vbT + 1]))],
            LAMBDA s1 :
        Let([s1 EXCEPT !.rate = updaterate(s1, 1..vbT, 1..vbN)], LAMBDA s2 :
        Let(lowerbound(s2), LAMBDA lb :
            IF rejected(lb, reference(s))
            THEN [s2 EXCEPT !.rm = SetAt(s.rm, l, shrink2(s.rm[l])),
                            !.m = SetCol(s2.m, l, Col(s2.last_m, l)),
                            !.rate = s2.last_rate,
                            !.lam_m = SetAt(s2.lam_m, l, s2.lam_last_m[l]),
                            !.outcome = Outcome("m", l, "rejected", lb)]
            ELSE IF gained(lb, reference(s), nw.predict)
            THEN [s2 EXCEPT !.rm = SetAt(s.rm, l, grow(s.rm[l])),
                            !.outcome = Outcome("m", l, "grown", lb)]
            ELSE [s2 EXCEPT !.outcome = Outcome("m", l, "kept", lb)]))))))

\* The same pass with constrain_m != 'lag': the column is centred after the
\* step was accepted or rejected.
block_m_plain(s, l) ==
    Let(grad_m_of(s, l), LAMBDA grad :
    Let(hess_m_of(s, l), LAMBDA hess :
    Let(newton(grad, hess, s.rm[l]), LAMBDA nw :
        IF nw.kind # "step" THEN skipped(s, "m", l, nw.kind)
        ELSE
        Let([s EXCEPT !.last_m = SetCol(s.last_m, l, Col(s.m, l)),
                      !.last_rate = s.rate,
                      !.m = SetCol(s.m, l, VAdd(Col(s.m, l), nw.delta))], LAMBDA s1 :
        Let([s1 EXCEPT !.rate = updaterate(s1, 1..vbT, 1..vbN)], LAMBDA s2 :
        Let(lowerbound(s2), LAMBDA lb :
        Let(IF rejected(lb, reference(s))
            THEN [s2 EXCEPT !.rm = SetAt(s.rm, l, shrink2(s.rm[l])),
                            !.m = SetCol(s2.m, l, Col(s2.last_m, l)),
                            !.rate = s2.last_rate,
                            !.outcome = Outcome("m", l, "rejected", lb)]
            ELSE IF gained(lb, reference(s), nw.predict)
            THEN [s2 EXCEPT !.rm = SetAt(s.rm, l, grow(s.rm[l])),
                            !.outcome = Outcome("m", l, "grown", lb)]
            ELSE [s2 EXCEPT !.outcome = Outcome("m", l, "kept", lb)], LAMBDA s3 :
        Let(mean(Col(s3.m, l)), LAMBDA mbar :
            [s3 EXCEPT !.m = SetCol(s3.m, l,
                                    [t \in 1..vbT |-> FSub(s3.m[t][l], mbar)])]))))))))

block_m(s, l) == IF s.constrain_m = "lag" THEN block_m_lag(s, l) ELSE block_m_plain(s, l)

\* for _ in range(inneriter): V[l, t, t] = 1 / (...); updaterate([t], range(N))
fixed_point(s, l, t, k_, i) ==
    LET RECURSIVE iter(_, _)
        iter(j, sj) ==
            IF j >= i THEN sj
            ELSE Let(FDiv(One, FAdd(FSub(sj.omega[l][t][t], k_),
                                    FSum([n \in 1..vbN |->
                                            FMul(FMul(sj.rate[t][n], sj.a[l][n]), sj.a[l][n])]))),
                     LAMBDA vtt :
                 Let([sj EXCEPT !.V[l][t][t] = vtt], LAMBDA s1 :
                     iter(j + 1, [s1 EXCEPT !.rate = updaterate(s1, {t}, 1..vbN)])))
    IN iter(0, s)

\* The body of "for t in range(T)" in the posterior covariance update of
\* latent l.
update_V(s, l, t) ==
    Let(FSub(s.K[l][t][t], FDiv(One, s.V[l][t][t])), LAMBDA k_ :
    Let(s.V[l][t][t], LAMBDA old_vtt :
    Let([s EXCEPT !.last_rate = [s.last_rate EXCEPT ![t] = s.rate[t]]], LAMBDA s0 :
    Let(fixed_point(s0, l, t, k_, s.inneriter), LAMBDA s1 :
    Let(s1.V[l], LAMBDA Vl :
    Let([u \in 1..vbT |->
            [w \in 1..vbT |->
                IF u # t /\ w # t
                THEN FAdd(Vl[u][w],
                          FDiv(FMul(FSub(Vl[t][t], old_vtt), FMul(Vl[t][u], Vl[t][w])),
                               FMul(old_vtt, old_vtt)))
                ELSE Vl[u][w]]], LAMBDA V1 :
    Let([u \in 1..vbT |->
            [w \in 1..vbT |->
                IF u = t /\ w # t THEN FDiv(FMul(V1[t][t], V1[t][w]), old_vtt)
                ELSE IF w = t /\ u # t THEN FDiv(FMul(V1[t][t], V1[t][u]), old_vtt)
                ELSE V1[u][w]]], LAMBDA V2 :
        [s1 EXCEPT !.V[l] = V2,
                   !.K[l][t][t] = FAdd(k_, FDiv(One, V2[t][t])),
                   !.outcome = Outcome("V", l, "updated", 0)])))))))

\* ------------------------------------------------------------------------
\* src/vb.py  variational(), one action per pass of a block loop
\* ------------------------------------------------------------------------

vbVars == <<vb, vpc>>
vars == <<trials, params, config, pc, it, norms, cbi, runtime, steps, logged, exit,
          ret, vb, vpc>>

\* Largest maxiter of the controls explored.
MaxVbIter == 3

\* python's max(del_a, del_b, del_m, del_V): a later argument replaces the
\* running maximum only when it compares greater
py_max(u) ==
    LET RECURSIVE run(_, _)
        run(i, cur) == IF i > Len(u) THEN cur
                       ELSE run(i + 1, IF FGt(u[i], cur) THEN u[i] ELSE cur)
    IN run(2, u[1])

\* np.max(np.abs(old - new)) over all entries
max_abs_diff(old, new) ==
    normInf([i \in 1..Len(old) |-> FSub(old[i], new[i])])

\* The end of one pass of the while loop: the bound is recorded, convergence
\* is tested, the old values are refreshed and it is incremented.
end_of_iteration(s) ==
    Let(IF s.fixa THEN 0 ELSE max_abs_diff(Concat(s.old_a), Concat(s.a)), LAMBDA del_a :
    Let(0, LAMBDA del_b :
    Let(IF s.fixm THEN 0 ELSE max_abs_diff(Concat(s.old_m), Concat(s.m)), LAMBDA del_m :
    Let(IF s.fixV THEN 0
        ELSE max_abs_diff(Concat(Concat(s.old_V)), Concat(Concat(s.V))), LAMBDA del_V :
    Let(py_max(<<del_a, del_b, del_m, del_V>>), LAMBDA delta :
        [s EXCEPT !.lbound = SetAt(s.lbound, s.it + 1, lowerbound(s)),
                  !.convergent = IF FLt(delta, s.tol) THEN TRUE ELSE s.convergent,
                  !.old_a = s.a, !.old_b = s.b, !.old_m = s.m, !.old_V = s.V,
                  !.it = s.it + 1,
                  !.outcome = Outcome("end", 0, "recorded", 0)])))))

\* The block loops of one pass, in order, and whether each runs.
Phases == <<"b", "a", "m", "V", "end">>
runs(s, ph) == CASE ph = "b" -> ~s.fixb
                 [] ph = "a" -> ~s.fixa
                 [] ph = "m" -> ~s.fixm
                 [] ph = "V" -> ~s.fixV
                 [] OTHER -> TRUE
\* The first loop that runs after the k-th one.
phase_after(s, k) ==
    LET j == CHOOSE j \in (k + 1)..Len(Phases) :
                 runs(s, Phases[j]) /\ \A h \in (k + 1)..(j - 1) : ~runs(s, Phases[h])
    IN [ph |-> Phases[j], i |-> 1]

\* Where a block loop of n passes goes after pass i with the result res.
after_pass(s, k, i, n, res) ==
    IF res = "break" \/ i >= n THEN phase_after(s, k) ELSE [ph |-> Phases[k], i |-> i + 1]

\* The inputs explored.
Counts == {<<<<0, One>>, <<Two, 0>>>>, <<<<One, One>>, <<0, 3 * One>>>>}
Loadings0 == {<<<<One, 0>>>>, <<<<Half, Half>>>>, <<<<0, 0>>>>}
Priors == {[sigma |-> Identity(vbT), omega |-> Identity(vbT)],
           [sigma |-> <<<<One, Half>>, <<Half, One>>>>,
            omega |-> <<<<(4 * One) \div 3, 0 - (2 * One) \div 3>>,
                      <<0 - (2 * One) \div 3, (4 * One) \div 3>>>>]}
Means0 == {<<<<0>>, <<0>>>>, <<<<One>>, <<0>>>>, <<<<0 - 3 * One>>, <<0 - 3 * One>>>>}
VbTols == {One \div 8, Two}
Fixes == {[fixa |-> FALSE, fixb |-> FALSE, fixm |-> FALSE, fixV |-> FALSE],
          [fixa |-> FALSE, fixb |-> TRUE, fixm |-> FALSE, fixV |-> TRUE]}
Constraints == {"lag", "none"}

\* The state of variational() when the while loop is reached.
vb_start(y, mu, prior, m0, a0, fix, constrain_a, constrain_m, maxiter, tol) ==
    Let([i \in 1..1 |-> [n \in 1..vbN |-> 0]], LAMBDA b0 :
    Let([y |-> y, Y |-> history(y), mu |-> mu, omega |-> <<prior.omega>>,
         anorm |-> One, constrain_a |-> constrain_a, constrain_m |-> constrain_m,
         fixa |-> fix.fixa, fixb |-> fix.fixb, fixm |-> fix.fixm, fixV |-> fix.fixV,
         maxiter |-> maxiter, tol |-> tol, inneriter |-> 1,
         m |-> m0, V |-> <<prior.sigma>>, K |-> <<prior.omega>>, a |-> a0, b |-> b0,
         rate |-> ZeroMat(vbT, vbN)], LAMBDA s0 :
    Let(updaterate(s0, 1..vbT, 1..vbN), LAMBDA rate :
    Let([s0 EXCEPT !.rate = rate], LAMBDA s1 :
    Let(lowerbound(s1), LAMBDA lb0 :
        s1 @@ [lbound |-> [i \in 1..maxiter |-> IF i = 1 THEN lb0 ELSE NInf],
               old_a |-> a0, old_b |-> b0, old_m |-> m0, old_V |-> <<prior.sigma>>,
               last_b |-> b0, last_a |-> a0, last_m |-> m0, last_rate |-> rate,
               ra |-> [n \in 1..vbN |-> One], rb |-> [n \in 1..vbN |-> One],
               rm |-> [l \in 1..vbL |-> One],
               lam_a |-> [l \in 1..vbL |-> 0], lam_last_a |-> [l \in 1..vbL |-> 0],
               lam_m |-> [l \in 1..vbL |-> 0], lam_last_m |-> [l \in 1..vbL |-> 0],
               it |-> 1, convergent |-> FALSE, outcome |-> Outcome("", 0, "", 0)])))))

InitVB ==
    /\ \E y \in Counts, mu \in Means0, prior \in Priors, a0 \in Loadings0, fix \in Fixes,
          ca \in Constraints, cm \in Constraints, mx \in 1..MaxVbIter, tol \in VbTols :
          vb = vb_start(y, mu, prior, mu, a0, fix, ca, cm, mx, tol)
    /\ vpc = [ph |-> "while", i |-> 0]

\* while not convergent and it < maxiter
While ==
    /\ vpc.ph = "while"
    /\ vpc' = IF ~vb.convergent /\ vb.it < vb.maxiter
              THEN phase_after(vb, 0) ELSE [ph |-> "after", i |-> 0]
    /\ UNCHANGED <<vb, trials, params, config, pc, it, norms, cbi, runtime, steps,
                   logged, exit, ret>>

BlockB ==
    /\ vpc.ph = "b"
    /\ \E s \in {block_b(vb, vpc.i)} :
          /\ vb' = s
          /\ vpc' = after_pass(s, 1, vpc.i, vbN, s.outcome.res)
    /\ UNCHANGED coreVars

BlockA ==
    /\ vpc.ph = "a"
    /\ \E s \in {block_a(vb, vpc.i)} :
          /\ vb' = s
          /\ vpc' = after_pass(s, 2, vpc.i, vbL, s.outcome.res)
    /\ UNCHANGED coreVars

BlockM ==
    /\ vpc.ph = "m"
    /\ \E s \in {block_m(vb, vpc.i)} :
          /\ vb' = s
          /\ vpc' = after_pass(s, 3, vpc.i, vbL, s.outcome.res)
    /\ UNCHANGED coreVars

\* for l in range(L): for t in range(T): pass i is (l, t) in row-major order
UpdateV ==
    /\ vpc.ph = "V"
    /\ \E s \in {update_V(vb, ((vpc.i - 1) \div vbT) + 1, ((vpc.i - 1) % vbT) + 1)} :
          /\ vb' = s
          /\ vpc' = after_pass(s, 4, vpc.i, vbL * vbT, s.outcome.res)
    /\ UNCHANGED coreVars

EndIteration ==
    /\ vpc.ph = "end"
    /\ vb' = end_of_iteration(vb)
    /\ vpc' = [ph |-> "while", i |-> 0]
    /\ UNCHANGED coreVars

\* if it == maxiter: warnings.warn('not convergent', RuntimeWarning); return
Finish ==
    /\ vpc.ph = "after"
    /\ ret' = [convergent |-> IF vb.convergent THEN "true" ELSE "false",
               warnings |-> IF vb.it = vb.maxiter THEN 1 ELSE 0]
    /\ vpc' = [ph |-> "returned", i |-> 0]
    /\ UNCHANGED <<vb, trials, params, config, pc, it, norms, cbi, runtime, steps,
                   logged, exit>>

NextVB ==
    \/ While
    \/ BlockB
    \/ BlockA
    \/ BlockM
    \/ UpdateV
    \/ EndIteration
    \/ Finish

\* The variables of the driver that is not running.
IdleVB ==
    /\ vb = [it |-> 0]
    /\ vpc = [ph |-> "idle", i |-> 0]

IdleCore ==
    /\ trials = << >>
    /\ params = [a |-> << >>]
    /\ config = [max_iter |-> 0]
    /\ pc = "idle"
    /\ it = 0
    /\ norms = [norm_mu |-> 0, norm_a |-> 0, norm_b |-> 0]
    /\ cbi = 0
    /\ runtime = 0
    /\ steps = << >>
    /\ logged = 0
    /\ exit = ""
    /\ ret = [convergent |-> "none", warnings |-> 0]

\* vem() of src/vlgp/core.py
Init == InitCore /\ IdleVB
Next == NextCore
Spec == Init /\ [][Next]_vars

\* variational() of src/vb.py
InitVariational == InitVB /\ IdleCore
SpecVB == InitVariational /\ [][NextVB]_vars

\* Either driver
InitDrivers == Init \/ InitVariational
NextDrivers == NextCore \/ NextVB
SpecDrivers == InitDrivers /\ [][NextDrivers]_vars

\* ------------------------------------------------------------------------
\* Properties of vem(), src/vlgp/core.py
\* ------------------------------------------------------------------------

\* The convergence test of the iteration under way, on the norms snapshotted
\* at its start.
convergence_test ==
    /\ FLt(normF(all_dmu(trials)), FMul(config.tol, norms.norm_mu))
    /\ FLt(normF(params.da), FMul(config.tol, norms.norm_a))
    /\ FLt(normF(params.db), FMul(config.tol, norms.norm_b))

at_check == pc = "callbacks" /\ cbi >= config.callbacks

\* C1: the outer loop of vem() stops early at iteration it if and only if the
\* convergence test holds on the norms snapshotted in that iteration and
\* it + 1 >= min_iter; a test that holds earlier never stops the loop.
C1_StopsIffConvergedAfterMinIter ==
    [][at_check =>
          /\ (pc' = "returned") <=> (convergence_test /\ it + 1 >= config.min_iter)
          /\ (pc' = "returned") => exit' = "break"
          /\ (convergence_test /\ it + 1 < config.min_iter) => pc' = "for"]_vars

\* A run that met the test in iteration 0, before min_iter, went on, and
\* stopped early in iteration 1.
C1_Witness ==
    /\ exit = "break"
    /\ it = 1
    /\ config.min_iter = 2
    /\ \E i \in 1..Len(steps) :
          steps[i].step = "check" /\ steps[i].it = 0 /\ steps[i].converged

\* The steps of one outer iteration, in order, before its callbacks.
StepOrder == <<"snapshot", "constrain_loading", "estep", "constrain_latent", "mstep",
               "hstep">>

\* C3: every outer iteration of vem() runs snapshot, constrain_loading, estep,
\* constrain_latent, mstep, hstep, the callbacks and the convergence check in
\* this order, and no step of iteration k + 1 comes before the check of
\* iteration k.
C3_FixedStepOrder ==
    LET period == Len(StepOrder) + config.callbacks + 1
    IN \A i \in 1..Len(steps) :
          LET p == ((i - 1) % period) + 1
          IN /\ steps[i].it = (i - 1) \div period
             /\ steps[i].step = IF p <= Len(StepOrder) THEN StepOrder[p]
                                ELSE IF p < period THEN "callback"
                                ELSE "check"

\* Two whole iterations with the largest number of callbacks have run.
C3_Witness ==
    /\ config.callbacks = MaxCallbacks
    /\ Len(steps) = 2 * (Len(StepOrder) + MaxCallbacks + 1)
    /\ steps[Len(steps)].it = 1

\* C4: whatever a callback raises, the failure is caught: the remaining
\* callbacks and the convergence check still run and the loop is not aborted.
C4_CallbackFailureNeverAborts ==
    [][(pc = "callbacks" /\ cbi < config.callbacks) =>
          (pc' = "callbacks" /\ exit' = exit)]_vars

\* C5: with Eniter = 0 estep() changes nothing, and with Mniter = 0 mstep()
\* changes nothing (mu, v, w, dmu of every trial; a, b, da, db, noise) and
\* does not raise.
C5_ZeroIterationsNoOp ==
    [][/\ (pc = "estep" /\ config.Eniter = 0) => (trials' = trials /\ params' = params)
       /\ (pc = "mstep" /\ config.Mniter = 0) =>
             (trials' = trials /\ params' = params /\ pc' = "hstep")]_vars

\* Both steps were no-ops in an iteration whose trials carry a nonzero
\* latent mean and a nonzero count.
C5_Witness ==
    /\ pc = "hstep"
    /\ config.Eniter = 0
    /\ config.Mniter = 0
    /\ \E i \in 1..Len(trials) : trials[i].mu # ZeroMat(TLen, zdim)

\* The latent dimensions whose low-rank prior factor is all-zero.
degenerate == {l \in 1..zdim : params.cholesky[l] = ZeroMat(TLen, rank)}

\* residual @ a[l, :] of trial i at the start of estep()
residual_along(i, l) ==
    Let(eta_of(trials[i].mu, params.a, xb_of(trials[i].x, params.b)), LAMBDA eta :
    Let(residual_of(trials[i].y, eta, rate_of(eta, trials[i].v, params.a),
                    params.likelihood, params.noise), LAMBDA residual :
        [t \in 1..TLen |-> Dot(residual[t], params.a[l])]))

\* The inputs of the update of mu[:, l] of trial i are finite numbers.
finite_inputs(i, l) ==
    /\ VFinite(Col(trials[i].mu, l))
    /\ VFinite(Col(trials[i].w, l))
    /\ VFinite(residual_along(i, l))

\* x moved toward 0 by at most bound.
pulled(x, bound) == IF x > bound THEN x - bound ELSE IF x < 0 - bound THEN x + bound ELSE 0

\* C10 as stated: when the prior factor of latent dimension l is all-zero,
\* estep() with Eniter >= 1 does not raise and leaves mu[:, l] of every trial
\* unchanged.
C10_DegenerateDimensionUnchanged ==
    [][(pc = "estep" /\ config.Eniter >= 1) =>
          /\ pc' = "constrain_latent"
          /\ \A i \in 1..Len(trials) : \A l \in degenerate :
                Col(trials'[i].mu, l) = Col(trials[i].mu, l)]_vars

\* C10 amended: estep() does not raise; one inner iteration moves every
\* entry of mu[:, l] of a degenerate dimension l toward 0 by at most
\* dmu_bound (to exactly 0 when it is within dmu_bound) when mu[:, l], w[:, l]
\* and residual @ a[l, :] are finite, and leaves it unchanged otherwise; the
\* other dimensions get the update they get with a nonzero factor for l.
C10_DegenerateDimensionPulledToZero ==
    [][(pc = "estep" /\ config.Eniter = 1) =>
          /\ pc' = "constrain_latent"
          /\ \A i \in 1..Len(trials) : \A l \in degenerate :
                /\ \A t \in 1..TLen :
                      trials'[i].mu[t][l] =
                          IF finite_inputs(i, l)
                          THEN pulled(trials[i].mu[t][l], config.dmu_bound)
                          ELSE trials[i].mu[t][l]
                /\ \A k \in (1..zdim) \ {l} :
                      Col(trials'[i].mu, k) =
                          Col(estep(trials,
                                    [params EXCEPT !.cholesky[l] =
                                        [t \in 1..TLen |-> [j \in 1..rank |-> One]]],
                                    config)[i].mu, k)]_vars

\* estep() has run one inner iteration with a degenerate dimension whose
\* mean it moved, while another dimension was updated too.
C10_Witness ==
    /\ pc = "constrain_latent"
    /\ config.Eniter = 1
    /\ \E l \in degenerate : \E i \in 1..Len(trials) :
          /\ Col(trials[i].dmu, l) # Zeros(TLen)
          /\ \E k \in (1..zdim) \ {l} : Col(trials[i].dmu, k) # Zeros(TLen)

\* What mstep() reads when it is entered: the concatenated y, x, mu, v of the
\* trials and the rate r of its first inner iteration.
mstep_inputs ==
    Let(all_mu(trials), LAMBDA mu :
    Let(Concat([i \in 1..Len(trials) |-> trials[i].v]), LAMBDA v :
    Let(Concat([i \in 1..Len(trials) |-> trials[i].x]), LAMBDA x :
        [y |-> Concat([i \in 1..Len(trials) |-> trials[i].y]), x |-> x, mu |-> mu,
         v |-> v, r |-> rate_of(eta_of(mu, params.a, xb_of(x, params.b)), v, params.a)])))

\* The solve of the loading of Poisson channel n in the first inner
\* iteration of mstep(): solve(nhess_a + jitter, grad_a, assume_a='pos').
loading_solve(n) ==
    Let(mstep_inputs, LAMBDA in :
    Let(mu_plus_v_times_a(in.mu, in.v, Col(params.a, n)), LAMBDA mpva :
        solve_pos(AddDiag(AddDiag(MatMul(Transpose(mpva), rows_scaled(Col(in.r, n), mpva)),
                                  MatVec(Transpose(in.v), Col(in.r, n))),
                          [l \in 1..zdim |-> config.eps]),
                  VSub(MatVec(Transpose(in.mu), Col(in.y, n)),
                       MatVec(Transpose(mpva), Col(in.r, n))))))

\* The Poisson channels whose loading solve fails in the first inner
\* iteration of mstep().
failed_loading ==
    {n \in 1..ydim : /\ params.likelihood[n] = "poisson"
                     /\ config.use_hessian
                     /\ ~loading_solve(n).ok}

\* C11: a failure of a linear solve of mstep() is never fatal and leaves the
\* parameter of the affected block as it was: mstep() returns normally, and
\* the loading column of a Poisson channel whose solve failed in the one
\* inner iteration run is unchanged.
C11_SolveFailureNeverFatal ==
    [][(pc = "mstep" /\ config.Mniter = 1) =>
          /\ pc' = "hstep"
          /\ \A n \in failed_loading : Col(params'.a, n) = Col(params.a, n)]_vars

\* The joint linear predictor mu . a + x . b of every trial.
predictor(ts, ps) ==
    [i \in 1..Len(ts) |-> eta_of(ts[i].mu, ps.a, xb_of(ts[i].x, ps.b))]

\* The floating tolerance of a comparison of two predictors or products, in
\* units of the number model.
Tolerance == Scale \div 4

\* x and y are the same number within the floating tolerance.
close(x, y) == IsFin(x) /\ IsFin(y) /\ Abs(x - y) <= Tolerance

\* Two arrays of matrices (one per trial) agree entry by entry within the
\* tolerance.
all_close(p, q) ==
    \A i \in 1..Len(p) : \A t \in 1..Len(p[i]) : \A n \in 1..Len(p[i][t]) :
        close(p[i][t][n], q[i][t][n])

\* C12: constrain_latent() in the modes location, scale and both leaves the
\* joint linear predictor mu . a + x . b of every trial and time step
\* unchanged (within the floating tolerance); in mode none it changes
\* nothing.
C12_LatentConstraintKeepsPredictor ==
    [][pc = "constrain_latent" =>
          /\ all_close(predictor(trials', params'), predictor(trials, params))
          /\ config.constrain_latent = "none" => (trials' = trials /\ params' = params)]_vars

\* mu @ a of every trial
latent_part(ts, ps) == [i \in 1..Len(ts) |-> MatMul(ts[i].mu, ps.a)]

\* every entry of q is the entry of p, or a finite value within the tolerance
\* of it
all_unchanged(p, q) ==
    \A i \in 1..Len(p) : \A t \in 1..Len(p[i]) : \A n \in 1..Len(p[i][t]) :
        p[i][t][n] = q[i][t][n] \/ close(p[i][t][n], q[i][t][n])

\* C13: constrain_loading() leaves mu @ a of every trial unchanged in the svd
\* mode and in the norm modes (Frobenius norm, row norm); in mode none it
\* changes neither a nor mu.
C13_LoadingConstraintKeepsLatentPart ==
    [][pc = "constrain_loading" =>
          /\ all_unchanged(latent_part(trials', params'), latent_part(trials, params))
          /\ config.constrain_loading = "none" =>
                (trials' = trials /\ params' = params)]_vars

\* constrain_loading() in the svd mode has just replaced a loading matrix
\* whose rows were not orthonormal, with a finite latent mean that is not 0.
C13_Witness ==
    /\ pc = "estep"
    /\ config.constrain_loading = "svd"
    /\ Len(steps) = 2
    /\ params.a # <<<<One, 0>>, <<Half, One>>>>
    /\ \E i \in 1..Len(trials) : \E l \in 1..zdim :
          IsFin(trials[i].mu[1][l]) /\ trials[i].mu[1][l] # 0
    /\ \E i \in 1..Len(trials) : \E n \in 1..ydim :
          latent_part(trials, params)[i][1][n] # 0

\* a list in the opposite order
reversed(q) == [i \in 1..Len(q) |-> q[Len(q) + 1 - i]]

residual_variance(ts, a, b) ==
    Let(all_mu(ts), LAMBDA mu :
    Let(Concat([i \in 1..Len(ts) |-> ts[i].x]), LAMBDA x :
    Let(Concat([i \in 1..Len(ts) |-> ts[i].y]), LAMBDA y :
        var_cols(MSub(y, eta_of(mu, a, xb_of(x, b)))))))

\* C15: when mstep() returns, params["noise"] is the residual variance of
\* y - (mu @ a + x @ b) for the a and b that mstep() returns.
C15_NoiseMatchesReturnedParameters ==
    [][(pc = "mstep" /\ config.Mniter >= 1 /\ pc' = "hstep") =>
          \A n \in 1..ydim :
             \/ params'.noise[n] = residual_variance(trials, params'.a, params'.b)[n]
             \/ close(params'.noise[n],
                      residual_variance(trials, params'.a, params'.b)[n])]_vars

\* the channels whose column of a or of b differs between the params p and q
changed_channels(p, q) ==
    {n \in 1..ydim : Col(p.a, n) # Col(q.a, n) \/ Col(p.b, n) # Col(q.b, n)}

\* C16: after mstep() with one inner iteration, for every channel whose
\* column of a or b was changed (Poisson and Gaussian alike), da[:, n] and
\* db[:, n] are the deltas just applied to a[:, n] and b[:, n].
C16_DeltasAreThoseLastApplied ==
    [][(pc = "mstep" /\ config.Mniter = 1 /\ pc' = "hstep" /\ MFinite(params'.a)
           /\ MFinite(params'.b) /\ MFinite(params.a) /\ MFinite(params.b)) =>
          \A n \in changed_channels(params, params') :
             /\ Col(params'.da, n) = VSub(Col(params'.a, n), Col(params.a, n))
             /\ Col(params'.db, n) = VSub(Col(params'.b, n), Col(params.b, n))]_vars





\* ------------------------------------------------------------------------
\* Properties of the drivers and of variational(), src/vb.py
\* ------------------------------------------------------------------------

\* The caller was told that the fit did not converge: a flag or a warning.
signalled == ret.convergent = "false" \/ ret.warnings > 0

\* C2: when the tolerance is never met the driver stops after the configured
\* maximum number of outer iterations, returns normally and signals
\* non-convergence to the caller by a status flag or a warning. vem() counts
\* its iterations in runtime["it"]; variational() leaves its loop when its
\* counter it reaches maxiter.
C2_CapReachedIsSignalled ==
    /\ (pc = "returned" /\ exit = "exhausted") =>
          (runtime = config.max_iter /\ signalled)
    /\ (vpc.ph = "returned" /\ ~vb.convergent) =>
          (vb.it = vb.maxiter /\ signalled)

\* A pass of one of the block loops of b, a and m is about to run.
at_block == vpc.ph \in {"b", "a", "m"}

\* C6: the bound recomputed after an accepted block update is never below the
\* bound that held immediately before that step.
C6_AcceptedStepNeverLowersBound ==
    [][(at_block /\ vb'.outcome.res \in {"grown", "kept"}) =>
          ~FLt(vb'.outcome.lb, lowerbound(vb))]_vars

\* C7: after a rejected step the parameters, the Lagrange multipliers and the
\* rate cache hold their pre-step values, in the 'lag' branches and in the
\* others.
C7_RejectedStepRestoresState ==
    [][(at_block /\ vb'.outcome.res = "rejected") =>
          /\ vb'.b = vb.b
          /\ vb'.a = vb.a
          /\ vb'.m = vb.m
          /\ vb'.lam_a = vb.lam_a
          /\ vb'.lam_m = vb.lam_m
          /\ vb'.rate = vb.rate]_vars

\* The trust scalars, by block.
TrustBlocks == ({"a"} \X (1..vbN)) \cup ({"b"} \X (1..vbN)) \cup ({"m"} \X (1..vbL))
trust(s, blk) == CASE blk[1] = "a" -> s.ra[blk[2]]
                   [] blk[1] = "b" -> s.rb[blk[2]]
                   [] blk[1] = "m" -> s.rm[blk[2]]

passes(ph) == IF ph = "b" THEN vbN ELSE vbL

\* C9: when the solve of a block's Newton step fails on a singular matrix the
\* block is skipped: parameters, rate cache and trust scalars are unchanged,
\* nothing is raised and the loop goes on with the next block.
C9_SingularSolveSkipsBlock ==
    [][(at_block /\ vb'.outcome.res = "singular") =>
          /\ [vb' EXCEPT !.outcome = vb.outcome] = vb
          /\ IF vpc.i < passes(vpc.ph)
             THEN vpc' = [ph |-> vpc.ph, i |-> vpc.i + 1]
             ELSE vpc'.ph \in {"a", "m", "V", "end"} \ {vpc.ph} /\ vpc'.i = 1]_vars

\* A block was skipped on a singular system and the pass went on to its end.
C9_Witness ==
    /\ vb.outcome.res = "singular"
    /\ vb.outcome.kind \in {"b", "a", "m"}

\* C17: within one outer iteration of variational() the update is attempted
\* for every block of each group: after the pass of a block that is not the
\* last of its loop comes the pass of the next block of the same loop, also
\* when the block was skipped for its small gradient.
C17_EveryBlockAttempted ==
    [][(at_block /\ vpc.i < passes(vpc.ph)) =>
          vpc' = [ph |-> vpc.ph, i |-> vpc.i + 1]]_vars

\* C18: variational() has issued the 'not convergent' warning exactly when
\* it returns with convergent False; a run whose tolerance is first met in
\* the last permitted outer iteration returns True without a warning.
C18_WarningIffNotConvergent ==
    vpc.ph = "returned" => (ret.warnings = 1 <=> ret.convergent = "false")



=============================================================================
